---- MODULE Spec2Model ----
(***************************************************************************)
(* Chat Circuit (src/app.py): the node tree with its undo/redo command     *)
(* engine, and the inference / re-run coordination of FormWidget.          *)
(*                                                                         *)
(* The heap of FormWidget objects is the sequence `forms`; a form is named *)
(* by its index, 0 stands for None.  LlmWorker objects are the sequence    *)
(* `workers`.  Handlers run to completion on the UI thread; a signal       *)
(* emitted on the UI thread calls its slots directly, a signal emitted by  *)
(* a pool thread posts one event per connected slot to `events`.           *)
(***************************************************************************)
EXTENDS Integers, Sequences, FiniteSets, TLC

\* ---------------------------------------------------------------- bounds
MaxForms == 4
MaxCommands == 3
MaxDepth == 3
MaxReruns == 1
MaxSubmits == 1

\* ------------------------------------------------------ program constants
CloneOffsetX == 200
CloneOffsetY == 600
MinGap == 100
FormWidth == 300
FormHeight == 200

None == 0
NoPos == <<>>
Origin == <<0, 0>>
DEFAULT_LLM_MODEL == "llama3"

\* ------------------------------------------------------------------ texts
\* A text is a sequence of tokens.  "ws" is white space, "md" is markdown
\* markup (removed when the markdown is rendered), "url" is a URL.
Tok(k, i) == [k |-> k, id |-> i]
EmptyText == <<>>
ErrorPrefix == Tok("Error occurred: ", 0)

RECURSIVE LStrip(_)
LStrip(t) == IF t # <<>> /\ t[1].k = "ws" THEN LStrip(Tail(t)) ELSE t

RECURSIVE RStrip(_)
RStrip(t) ==
    IF t # <<>> /\ t[Len(t)].k = "ws" THEN RStrip(SubSeq(t, 1, Len(t) - 1)) ELSE t

Strip(t) == RStrip(LStrip(t))

IsMarkup(x) == x.k = "md"
RenderPlain(t) == SelectSeq(t, LAMBDA x : ~IsMarkup(x))

UrlMatch(t) == t # <<>> /\ t[1].k = "url"

\* ------------------------------------------------------------------ state
VARIABLES
    forms,           \* heap of FormWidget objects
    history,         \* CommandInvoker.history
    redo_stack,      \* CommandInvoker.redo_stack
    workers,         \* heap of LlmWorker objects
    events,          \* posted events of the UI thread, oldest first
    active_workers,  \* module-level counter
    crashed,         \* an exception left a slot: the process has aborted
    just_started,    \* workers started by the latest UI handler
    runs,            \* the forms re_run_all was called on (observer)
    submits,         \* lone submit_form calls so far (observer)
    oplog,           \* the last operations of the invoker (observer)
    probe            \* snapshots taken by the observer

vars == <<forms, history, redo_stack, workers, events, active_workers,
          crashed, just_started, runs, submits, oplog, probe>>
inference_vars == <<workers, events, active_workers, crashed, just_started,
                    runs, submits>>
invoker_vars == <<history, redo_stack, oplog, probe>>

Ids(F) == 1 .. Len(F)

NewForm(parent, model) ==
    [ parent_form |-> parent, child_forms |-> <<>>, link_line |-> "none",
      in_scene |-> FALSE, pos |-> Origin, size |-> <<FormWidth, FormHeight>>,
      model |-> model, selected_files |-> <<>>,
      input |-> EmptyText, conv |-> EmptyText, markdown_content |-> EmptyText,
      llm_worker |-> None, jina_running |-> <<>>, form_chain |-> <<>>,
      processing |-> FALSE, submitted |-> {}, alive |-> TRUE ]

AddVec(p, q) == <<p[1] + q[1], p[2] + q[2]>>
SubVec(p, q) == <<p[1] - q[1], p[2] - q[2]>>

SeqRemoveFirst(s, x) ==
    IF \E i \in 1 .. Len(s) : s[i] = x
    THEN LET i == CHOOSE j \in 1 .. Len(s) :
                    s[j] = x /\ \A k \in 1 .. (j - 1) : s[k] # x
         IN SubSeq(s, 1, i - 1) \o SubSeq(s, i + 1, Len(s))
    ELSE s

InSeq(s, x) == \E i \in 1 .. Len(s) : s[i] = x
SeqSet(s) == { s[i] : i \in 1 .. Len(s) }

Live(F) == { n \in Ids(F) : F[n].in_scene }

\* --------------------------------------------------------------- commands
\* One record shape for the four Command classes; `kind` is the class.
BlankCommand ==
    [ kind |-> "none", parent_form |-> None, position |-> NoPos,
      model |-> DEFAULT_LLM_MODEL, created_form |-> None, link_line |-> None,
      form |-> None, deleted_subtree |-> <<>>, old_pos |-> NoPos,
      new_pos |-> NoPos, source_form |-> None, cloned_forms |-> <<>> ]

CreateFormCommand(parent, position, model) ==
    [BlankCommand EXCEPT !.kind = "create", !.parent_form = parent,
                         !.position = position, !.model = model]

DeleteFormCommand(F, form) ==
    [BlankCommand EXCEPT !.kind = "delete", !.form = form,
                         !.parent_form = F[form].parent_form]

MoveFormCommand(form, old_pos, new_pos) ==
    [BlankCommand EXCEPT !.kind = "move", !.form = form,
                         !.old_pos = old_pos, !.new_pos = new_pos]

CloneBranchCommand(source) ==
    [BlankCommand EXCEPT !.kind = "clone", !.source_form = source]

\* QPointF is false when it is the null point (0, 0).
PointTruthy(p) == p # NoPos /\ p # Origin

CreateExecuteUnlinked(F, c) ==
    LET id == Len(F) + 1
        f0 == [NewForm(c.parent_form, c.model) EXCEPT !.in_scene = TRUE]
    IN [ F |-> Append(F, f0), c |-> [c EXCEPT !.created_form = id] ]

CreateExecuteAdoptsParent(F, c) ==
    LET id == Len(F) + 1
        f0 == [NewForm(c.parent_form, c.model) EXCEPT !.in_scene = TRUE]
        F1 == Append(F, f0)
        F2 == IF c.parent_form # None
              THEN [F1 EXCEPT ![c.parent_form].child_forms = Append(@, id),
                              ![c.parent_form].parent_form = id]
              ELSE F1
    IN [ F |-> F2, c |-> [c EXCEPT !.created_form = id] ]

CreateExecute(F, c) ==
    LET id == Len(F) + 1
        f0 == [NewForm(c.parent_form, c.model) EXCEPT !.in_scene = TRUE]
        f1 == IF PointTruthy(c.position) THEN [f0 EXCEPT !.pos = c.position] ELSE f0
        f2 == IF c.parent_form # None THEN [f1 EXCEPT !.link_line = "shown"] ELSE f1
        F1 == Append(F, f2)
        F2 == IF c.parent_form # None
              THEN [F1 EXCEPT ![c.parent_form].child_forms = Append(@, id)]
              ELSE F1
    IN [ F |-> F2,
         c |-> [c EXCEPT !.created_form = id,
                         !.link_line = IF c.parent_form # None THEN id ELSE None] ]

CreateUndoKeepsChild(F, c) ==
    IF c.created_form = None
    THEN [F |-> F, c |-> c]
    ELSE [ F |-> [F EXCEPT ![c.created_form].in_scene = FALSE],
           c |-> [c EXCEPT !.created_form = None, !.link_line = None] ]

CreateUndo(F, c) ==
    IF c.created_form = None
    THEN [F |-> F, c |-> c]
    ELSE LET id == c.created_form
             F1 == [F EXCEPT ![id].in_scene = FALSE]
             F2 == IF c.parent_form # None /\ InSeq(F1[c.parent_form].child_forms, id)
                   THEN [F1 EXCEPT ![c.parent_form].child_forms = SeqRemoveFirst(@, id)]
                   ELSE F1
             F3 == IF c.link_line # None /\ F2[c.link_line].link_line = "shown"
                   THEN [F2 EXCEPT ![c.link_line].link_line = "hidden"]
                   ELSE F2
         IN [ F |-> F3, c |-> [c EXCEPT !.created_form = None, !.link_line = None] ]

\* _delete_subtree: children first, then the form itself; the result is the
\* heap and the list of (form, pos, link_line) in deletion order.
RECURSIVE DeleteSubtree(_, _)
RECURSIVE DeleteChildren(_, _, _)
DeleteChildrenKept(F, kids, deleted) == [F |-> F, deleted |-> deleted]

DeleteChildren(F, kids, deleted) ==
    IF kids = <<>>
    THEN [F |-> F, deleted |-> deleted]
    ELSE LET r == DeleteSubtree(F, Head(kids))
         IN DeleteChildren(r.F, Tail(kids), deleted \o r.deleted)

DeleteSubtree(F, form) ==
    LET r  == DeleteChildren(F, F[form].child_forms, <<>>)
        F1 == IF r.F[form].in_scene THEN [r.F EXCEPT ![form].in_scene = FALSE] ELSE r.F
        F2 == IF F1[form].link_line = "shown"
              THEN [F1 EXCEPT ![form].link_line = "hidden"]
              ELSE F1
    IN [ F |-> F2,
         deleted |-> Append(r.deleted,
                            [ form |-> form, pos |-> F2[form].pos,
                              link_line |-> F2[form].link_line # "none" ]) ]

DeleteExecute(F, c) ==
    LET r  == DeleteSubtree(F, c.form)
        F1 == IF c.parent_form # None /\ InSeq(r.F[c.parent_form].child_forms, c.form)
              THEN [r.F EXCEPT ![c.parent_form].child_forms = SeqRemoveFirst(@, c.form)]
              ELSE r.F
    IN [ F |-> F1, c |-> [c EXCEPT !.deleted_subtree = r.deleted] ]

\* _restore_subtree walks the list backwards (parents before children).
RECURSIVE RestoreSubtree(_, _)
RestoreSubtree(F, deleted_items) ==
    IF deleted_items = <<>>
    THEN F
    ELSE LET it == deleted_items[Len(deleted_items)]
             F1 == [F EXCEPT ![it.form].in_scene = TRUE, ![it.form].pos = it.pos]
             F2 == IF it.link_line THEN [F1 EXCEPT ![it.form].link_line = "shown"] ELSE F1
         IN RestoreSubtree(F2, SubSeq(deleted_items, 1, Len(deleted_items) - 1))

DeleteUndoAppends(F, c) ==
    IF c.parent_form # None
    THEN [F EXCEPT ![c.parent_form].child_forms = Append(@, c.form)]
    ELSE F

DeleteUndo(F, c) ==
    [ F |-> DeleteUndoAppends(RestoreSubtree(F, c.deleted_subtree), c), c |-> c ]

MoveExecuteShiftsAll(F, c) ==
    [ F |-> [ n \in Ids(F) |-> [F[n] EXCEPT !.pos = c.new_pos] ], c |-> c ]
MoveExecute(F, c) == [ F |-> [F EXCEPT ![c.form].pos = c.new_pos], c |-> c ]
MoveUndo(F, c)    == [ F |-> [F EXCEPT ![c.form].pos = c.old_pos], c |-> c ]

\* _clone_branch: the clone is allocated and attached before its children
\* are cloned; the result lists the new forms root first, depth first.
RECURSIVE CloneBranch(_, _, _, _)
RECURSIVE CloneChildren(_, _, _, _, _)
CloneChildrenSkipped(F, source, kids, cloned_form, cloned_forms) ==
    [F |-> F, cloned |-> cloned_forms]

CloneChildren(F, source, kids, cloned_form, cloned_forms) ==
    IF kids = <<>>
    THEN [F |-> F, cloned |-> cloned_forms]
    ELSE LET child     == Head(kids)
             child_pos == AddVec(F[cloned_form].pos, SubVec(F[child].pos, F[source].pos))
             r         == CloneBranch(F, child, cloned_form, child_pos)
         IN CloneChildren(r.F, source, Tail(kids), cloned_form, cloned_forms \o r.cloned)

CloneBranch(F, source_form, parent_form, position) ==
    LET id == Len(F) + 1
        f0 == [NewForm(parent_form, F[source_form].model) EXCEPT
                  !.pos = position,
                  !.input = F[source_form].input,
                  !.conv = F[source_form].conv,
                  !.in_scene = TRUE,
                  !.link_line = IF parent_form # None THEN "shown" ELSE "none"]
        F1 == Append(F, f0)
        F2 == IF parent_form # None
              THEN [F1 EXCEPT ![parent_form].child_forms = Append(@, id)]
              ELSE F1
    IN CloneChildren(F2, source_form, F2[source_form].child_forms, id, <<id>>)

CloneExecute(F, c) ==
    LET parent  == F[c.source_form].parent_form
        new_pos == AddVec(F[c.source_form].pos, <<CloneOffsetX, CloneOffsetY>>)
        r       == CloneBranch(F, c.source_form, parent, new_pos)
    IN [ F |-> r.F, c |-> [c EXCEPT !.parent_form = parent, !.cloned_forms = r.cloned] ]

CloneUndo(F, c) ==
    LET gone == SeqSet(c.cloned_forms)
        F1 == [ n \in Ids(F) |->
                  IF n \in gone
                  THEN [F[n] EXCEPT !.in_scene = FALSE,
                                    !.link_line = IF @ = "shown" THEN "hidden" ELSE @]
                  ELSE F[n] ]
        F2 == IF c.parent_form # None
              THEN [F1 EXCEPT ![c.parent_form].child_forms =
                                  SelectSeq(@, LAMBDA f : f \notin gone)]
              ELSE F1
    IN [ F |-> F2, c |-> c ]

CommandExecute(F, c) ==
    CASE c.kind = "create" -> CreateExecute(F, c)
      [] c.kind = "delete" -> DeleteExecute(F, c)
      [] c.kind = "move"   -> MoveExecute(F, c)
      [] c.kind = "clone"  -> CloneExecute(F, c)

CommandUndo(F, c) ==
    CASE c.kind = "create" -> CreateUndo(F, c)
      [] c.kind = "delete" -> DeleteUndo(F, c)
      [] c.kind = "move"   -> MoveUndo(F, c)
      [] c.kind = "clone"  -> CloneUndo(F, c)

\* Number of forms in the subtree of n (what a clone of n allocates).
RECURSIVE SubtreeSize(_, _)
RECURSIVE SubtreeSizeKids(_, _)
SubtreeSizeKids(F, kids) ==
    IF kids = <<>> THEN 0 ELSE SubtreeSize(F, Head(kids)) + SubtreeSizeKids(F, Tail(kids))
SubtreeSize(F, n) == 1 + SubtreeSizeKids(F, F[n].child_forms)

\* Forms a (re-)execution of c allocates.
Allocates(F, c) ==
    CASE c.kind = "create" -> 1
      [] c.kind = "clone"  -> SubtreeSize(F, c.source_form)
      [] OTHER             -> 0

\* ---------------------------------------------------------- CommandInvoker
RedoStackKept(rs) == rs
RedoStackAfterExecute(rs) == <<>>

InvokerExecute(F, h, rs, c) ==
    LET r == CommandExecute(F, c)
    IN [ F |-> r.F, history |-> Append(h, r.c), redo_stack |-> RedoStackAfterExecute(rs) ]

InvokerUndoKeepsHistory(F, h, rs) ==
    IF h # <<>>
    THEN LET r == CommandUndo(F, h[Len(h)])
         IN [ F |-> r.F, history |-> h, redo_stack |-> Append(rs, r.c) ]
    ELSE [ F |-> F, history |-> h, redo_stack |-> rs ]

InvokerUndo(F, h, rs) ==
    IF h # <<>>
    THEN LET r == CommandUndo(F, h[Len(h)])
         IN [ F |-> r.F, history |-> SubSeq(h, 1, Len(h) - 1),
              redo_stack |-> Append(rs, r.c) ]
    ELSE [ F |-> F, history |-> h, redo_stack |-> rs ]

InvokerRedoWithoutExecute(F, h, rs) ==
    IF rs # <<>>
    THEN [ F |-> F, history |-> Append(h, rs[Len(rs)]),
           redo_stack |-> SubSeq(rs, 1, Len(rs) - 1) ]
    ELSE [ F |-> F, history |-> h, redo_stack |-> rs ]

InvokerRedo(F, h, rs) ==
    IF rs # <<>>
    THEN LET r == CommandExecute(F, rs[Len(rs)])
         IN [ F |-> r.F, history |-> Append(h, r.c),
              redo_stack |-> SubSeq(rs, 1, Len(rs) - 1) ]
    ELSE [ F |-> F, history |-> h, redo_stack |-> rs ]

\* ------------------------------------------------- inference coordination
\* The operators below work on a record S of the UI thread's world:
\*   F  forms, W  workers, E  posted events, aw  active_workers,
\*   crashed.
\* A worker: form (whose setup_llm_worker made it), context (the messages),
\* update_handler, conns (slots connected to signals.notify_child, in
\* connection order), state "running" | "returned" | "delivered", result.
\* The fields run (the re-run that submitted it, 0 for a lone submit) and
\* state "delivered" (its update/error slot has run) are observers.

World(F, W, E, aw, cr) == [F |-> F, W |-> W, E |-> E, aw |-> aw, crashed |-> cr]

ResponseText(w) == <<Tok("md", 0), Tok("resp", w)>>
FailureText(w)  == <<Tok("err", w)>>
FetchFailure(r) == <<Tok("fetch_err", r)>>
PageText(n)     == <<Tok("page", n)>>

Event(slot, form, text, w, run) ==
    [slot |-> slot, form |-> form, text |-> text, w |-> w, run |-> run]

\* gather_form_data: the ancestors' conversation text, root first.
RECURSIVE AncestorsTopDown(_, _)
AncestorsTopDown(F, n) ==
    IF F[n].parent_form = None
    THEN <<>>
    ELSE Append(AncestorsTopDown(F, F[n].parent_form), F[n].parent_form)

GatherFormDataReversed(F, n) ==
    LET anc == AncestorsTopDown(F, n)
    IN [ i \in 1 .. Len(anc) |-> F[anc[Len(anc) + 1 - i]].conv ]

GatherFormData(F, n) ==
    LET anc == AncestorsTopDown(F, n)
    IN [ i \in 1 .. Len(anc) |-> F[anc[i]].conv ]

StartProcessing(S, n) ==
    [S EXCEPT !.aw = @ + 1, !.F[n].processing = TRUE]

SetupLlmWorker(S, n, context, update_handler, run) ==
    LET w == Len(S.W) + 1
    IN [S EXCEPT !.W = Append(@, [ form |-> n, context |-> context,
                                   update_handler |-> update_handler,
                                   conns |-> <<>>, state |-> "running",
                                   ok |-> TRUE, run |-> run ]),
                 !.F[n].llm_worker = w]

\* Path(selected_file).read_text: a path that cannot be read raises OSError
\* and is skipped; the message of a file is its path, a line separator and
\* its content.
FileReadable(f) == f.k = "file"
FileContent(f) == Tok("content", f.id)
FileMessage(f) == <<f, Tok("linesep", 0), FileContent(f)>>
RECURSIVE FileMessages(_)
FileMessages(selected_files) ==
    IF selected_files = <<>> THEN <<>>
    ELSE (IF FileReadable(Head(selected_files))
          THEN <<FileMessage(Head(selected_files))>> ELSE <<>>)
         \o FileMessages(Tail(selected_files))

ProcessLlmRequest(S, n, input_text, run) ==
    LET context_data == SelectSeq(GatherFormData(S.F, n), LAMBDA t : t # EmptyText)
                            \o FileMessages(S.F[n].selected_files)
                            \o <<input_text>>
    IN SetupLlmWorker(StartProcessing(S, n), n, context_data, "handle_update", run)

FetchJinaReaderContent(S, n, url, run) ==
    StartProcessing([S EXCEPT !.F[n].jina_running = Append(@, run)], n)

\* submit_form; `submitted` records the call for the re-run (observer).
SubmitForm(S, n, run) ==
    LET input_text == Strip(S.F[n].input)
        S0 == [S EXCEPT !.F[n].submitted = @ \cup {run}]
    IN IF input_text = EmptyText THEN S0
       ELSE IF UrlMatch(input_text) THEN FetchJinaReaderContent(S0, n, input_text, run)
       ELSE ProcessLlmRequest(S0, n, input_text, run)

HandleJinaReaderContent(S, n, content, run) ==
    SetupLlmWorker(S, n, <<content>>, "handle_update", run)

\* all_forms: self and then every ancestor is pushed on the left of
\* self.form_chain.  An entry carries the number of the re-run (observer).
PathTopDown(F, n) == Append(AncestorsTopDown(F, n), n)

AllForms(F, n, run) ==
    LET path == PathTopDown(F, n)
    IN [F EXCEPT ![n].form_chain =
            [ i \in 1 .. Len(path) |-> [form |-> path[i], run |-> run] ] \o @]

\* process_next_form of `owner`.  IndexError (empty chain) is caught; the
\* AttributeError of None.signals is not: it leaves the slot and the
\* process aborts.
ProcessNextForm(S, owner) ==
    IF S.crashed \/ S.F[owner].form_chain = <<>>
    THEN S
    ELSE LET e   == Head(S.F[owner].form_chain)
             S1  == SubmitForm([S EXCEPT !.F[owner].form_chain = Tail(@)], e.form, e.run)
             lw  == S1.F[e.form].llm_worker
         IN IF lw = None
            THEN [S1 EXCEPT !.crashed = TRUE]
            ELSE [S1 EXCEPT !.W[lw].conns =
                      Append(@, [owner |-> owner, initial |-> lw > Len(S.W)])]

\* signals.notify_child.emit() on the UI thread: every slot connected when
\* the emission starts is called, in connection order.
RECURSIVE CallSlots(_, _)
CallSlots(S, conns) ==
    IF conns = <<>> \/ S.crashed
    THEN S
    ELSE CallSlots(ProcessNextForm(S, Head(conns).owner), Tail(conns))

EmitNotifyChild(S, w) == CallSlots(S, S.W[w].conns)

StopProcessingCounter(aw) == aw - 1

StopProcessing(S, n) ==
    LET S1 == [S EXCEPT !.aw = StopProcessingCounter(@), !.F[n].processing = FALSE]
    IN IF S1.F[n].llm_worker # None
       THEN EmitNotifyChild(S1, S1.F[n].llm_worker)
       ELSE S1

UpdateAnswer(S, n, message) ==
    IF S.crashed THEN S
    ELSE [S EXCEPT !.F[n].markdown_content = message,
                   !.F[n].conv = RenderPlain(message)]

HandleUpdate(S, n, text) == UpdateAnswer(StopProcessing(S, n), n, text)

HandleFinished(S, n) == StopProcessing(S, n)

HandleError(S, n, error) ==
    UpdateAnswer(StopProcessing(S, n), n, <<ErrorPrefix>> \o error)

\* The slot of one posted event.
RunSlot(S, ev) ==
    LET S0 == IF ev.w # None /\ ev.slot \in {"handle_update", "handle_error"}
              THEN [S EXCEPT !.W[ev.w].state = "delivered"]
              ELSE S
    IN CASE ev.slot = "handle_update"   -> HandleUpdate(S0, ev.form, ev.text)
         [] ev.slot = "handle_finished" -> HandleFinished(S0, ev.form)
         [] ev.slot = "handle_error"    -> HandleError(S0, ev.form, ev.text)
         [] ev.slot = "process_next_form" -> ProcessNextForm(S0, ev.form)
         [] ev.slot = "handle_jina_reader_content" ->
                HandleJinaReaderContent(S0, ev.form, ev.text, ev.run)

\* LlmWorker.run on a pool thread: update and finished, or error, and then
\* notify_child; each emission posts one event per slot connected to it.
\* `raced`: run() finished before process_next_form connected its slot.
NotifyEvents(wk, raced) ==
    LET seen == SelectSeq(wk.conns, LAMBDA c : ~(raced /\ c.initial))
    IN [ i \in 1 .. Len(seen) |-> Event("process_next_form", seen[i].owner, EmptyText, None, 0) ]

LlmWorkerRun(W, w, ok, raced) ==
    LET wk == W[w]
    IN (IF ok
        THEN << Event(wk.update_handler, wk.form, ResponseText(w), w, wk.run),
                Event("handle_finished", wk.form, EmptyText, w, wk.run) >>
        ELSE << Event("handle_error", wk.form, FailureText(w), w, wk.run) >>)
       \o NotifyEvents(wk, raced)

JinaReaderWorkerRun(n, run, ok) ==
    IF ok
    THEN Event("handle_jina_reader_content", n, PageText(n), None, run)
    ELSE Event("handle_error", n, FetchFailure(run), None, run)

\* ------------------------------------------------------------ persistence
\* A document node: the persisted shape of one form.
DocNode(pos, input, context, kids) ==
    [ pos |-> pos, size |-> <<FormWidth, FormHeight>>, input |-> input,
      context |-> context, model |-> DEFAULT_LLM_MODEL, children |-> kids,
      selected_files |-> <<>> ]

\* FormWidget.from_dict: the form is built and added to the scene, then its
\* children are loaded under it, in order.
RECURSIVE FromDict(_, _, _)
RECURSIVE FromDictChildren(_, _, _)
FromDictChildren(F, kids, form) ==
    IF kids = <<>>
    THEN F
    ELSE LET r  == FromDict(F, Head(kids), form)
             F1 == [r.F EXCEPT ![form].child_forms = Append(@, r.form),
                               ![r.form].link_line = "shown"]
         IN FromDictChildren(F1, Tail(kids), form)

FromDict(F, data, parent) ==
    LET id == Len(F) + 1
        f0 == [NewForm(parent, data.model) EXCEPT
                  !.pos = data.pos, !.size = data.size, !.input = data.input,
                  !.selected_files = data.selected_files,
                  !.markdown_content = data.context,
                  !.conv = RenderPlain(data.context),
                  !.in_scene = TRUE]
    IN [ F |-> FromDictChildren(Append(F, f0), data.children, id), form |-> id ]

RECURSIVE LoadCanvasState(_, _)
LoadCanvasState(F, canvas_state) ==
    IF canvas_state = <<>>
    THEN F
    ELSE LoadCanvasState(FromDict(F, Head(canvas_state), None).F, Tail(canvas_state))

\* FormWidget.to_dict: the form and, nested, the forms of its child_forms.
RECURSIVE ToDict(_, _)
ToDict(F, n) ==
    [ pos |-> F[n].pos, size |-> F[n].size, input |-> F[n].input,
      context |-> F[n].markdown_content, model |-> F[n].model,
      children |-> [ i \in 1 .. Len(F[n].child_forms) |-> ToDict(F, F[n].child_forms[i]) ],
      selected_files |-> F[n].selected_files ]

\* save_state: one entry per form of the scene that has no parent_form
\* (listed here by object index; the stacking order of scene.items() is
\* not modelled).
RECURSIVE RootEntries(_, _)
RootEntries(F, n) ==
    IF n > Len(F) THEN <<>>
    ELSE (IF F[n].in_scene /\ F[n].parent_form = None THEN <<ToDict(F, n)>> ELSE <<>>)
         \o RootEntries(F, n + 1)

SaveState(F) == RootEntries(F, 1)

\* load_from_file on an emptied scene.
LoadFromFile(canvas_state) == LoadCanvasState(<<>>, canvas_state)

\* ------------------------------------------------------------- documents
Positions == { <<40, 30>> }
MoveTargets == { <<40, 30>> }
RandomOffsets == { MinGap * 3 }

OldAnswer(i) == <<Tok("md", 0), Tok("old", i)>>
Prompt(kind, i) ==
    CASE kind = "plain" -> <<Tok("ws", 0), Tok("ask", i), Tok("ws", 0)>>
      [] kind = "empty" -> <<Tok("ws", 0)>>
      [] kind = "url"   -> <<Tok("url", i)>>
PromptKinds == {"plain", "empty", "url"}

FileToken(i) == Tok("file", i)
Leaf(i, p)  == DocNode(p, Prompt("plain", i), OldAnswer(i), <<>>)
ResizedLeaf(i, p) ==
    [Leaf(i, p) EXCEPT !.size = <<FormWidth + 100, FormHeight + 50>>,
                       !.selected_files = <<FileToken(i)>>]
FamilyDocument ==
    << DocNode(<<0, 0>>, Prompt("plain", 1), OldAnswer(1),
               << Leaf(2, <<500, 0>>), ResizedLeaf(3, <<500, 300>>) >>) >>
EmptyDocument == <<>>
CommandDocuments == { EmptyDocument, FamilyDocument }

\* A chain root -> ... of the given kinds of prompt, root first.
RECURSIVE ChainNode(_, _)
ChainNode(kinds, i) ==
    DocNode(<<500 * (i - 1), 0>>, Prompt(kinds[i], i), OldAnswer(i),
            IF i = Len(kinds) THEN <<>> ELSE <<ChainNode(kinds, i + 1)>>)
ChainDocuments == { <<ChainNode(k, 1)>> : k \in [1 .. MaxDepth -> PromptKinds] }

\* Chains for context assembly.  A form is answered, or not answered yet,
\* or answered with two attached files of which the first cannot be read,
\* or has a URL as its prompt; a chain takes the profiles of ProfileCycle
\* in turn, from any starting point.
UnreadableFile(i) == Tok("nofile", i)
ProfileCycle == <<"files", "blank", "files", "answered", "url">>
ProfileAt(k, i) == ProfileCycle[((k + i - 1) % Len(ProfileCycle)) + 1]
RECURSIVE ProfileNode(_, _)
ProfileNode(k, i) ==
    [ DocNode(<<500 * (i - 1), 0>>,
              Prompt(IF ProfileAt(k, i) = "url" THEN "url" ELSE "plain", i),
              IF ProfileAt(k, i) = "blank" THEN EmptyText ELSE OldAnswer(i),
              IF i = MaxDepth THEN <<>> ELSE <<ProfileNode(k, i + 1)>>)
      EXCEPT !.selected_files = IF ProfileAt(k, i) = "files"
                                THEN <<UnreadableFile(i), FileToken(i)>>
                                ELSE <<>> ]
ContextDocuments == { <<ProfileNode(k, 1)>> : k \in 0 .. (Len(ProfileCycle) - 1) }

\* -------------------------------------------------------------- observers
\* The live tree: the forms in the scene with their links and positions.
View(F) ==
    [ n \in Live(F) |->
        [ parent_form |-> F[n].parent_form, child_forms |-> F[n].child_forms,
          pos |-> F[n].pos ] ]

FullView(F) ==
    [ n \in Live(F) |->
        [ parent_form |-> F[n].parent_form, child_forms |-> F[n].child_forms,
          pos |-> F[n].pos, input |-> F[n].input, conv |-> F[n].conv,
          markdown_content |-> F[n].markdown_content, model |-> F[n].model ] ]

\* The view v with the forms old[i] renamed new[i].
RenameForm(x, old, new) ==
    IF \E i \in 1 .. Len(old) : old[i] = x
    THEN new[CHOOSE i \in 1 .. Len(old) : old[i] = x]
    ELSE x

RenameView(v, old, new) ==
    LET back(y) == CHOOSE x \in DOMAIN v : RenameForm(x, old, new) = y
    IN [ y \in { RenameForm(x, old, new) : x \in DOMAIN v } |->
           [ v[back(y)] EXCEPT
               !.parent_form = RenameForm(@, old, new),
               !.child_forms = [ i \in 1 .. Len(@) |-> RenameForm(@[i], old, new) ] ] ]

CreatedBy(c) ==
    CASE c.kind = "create" -> IF c.created_form = None THEN <<>> ELSE <<c.created_form>>
      [] c.kind = "clone"  -> c.cloned_forms
      [] OTHER             -> <<>>

Last(s) == s[Len(s)]

\* The operation log keeps the longest suffix of the invoker's operations
\* that is the beginning of one of the watched sequences.
WatchedSequences ==
    { <<"execute", "undo", "redo">>, <<"execute", "undo", "execute", "redo">> }
IsWatchedPrefix(log) ==
    \E ws \in WatchedSequences : Len(log) <= Len(ws) /\ SubSeq(ws, 1, Len(log)) = log
RECURSIVE Trim(_)
Trim(log) == IF Len(log) <= 1 \/ IsWatchedPrefix(log) THEN log ELSE Trim(Tail(log))
LogOp(log, op) == Trim(Append(log, op))

NoProbe ==
    [ executed |-> 0, redone |-> FALSE, pre |-> <<>>, expect |-> << >>, phase |-> 0, kind |-> "none",
      before |-> << >>, after |-> << >>, old |-> <<>>, new |-> <<>>, counts |-> <<>> ]

\* ------------------------------------------------- the command engine
InitWith(documents) ==
    /\ \E doc \in documents : forms = LoadCanvasState(<<>>, doc)
    /\ history = <<>>
    /\ redo_stack = <<>>
    /\ workers = <<>>
    /\ events = <<>>
    /\ active_workers = 0
    /\ crashed = FALSE
    /\ just_started = {}
    /\ runs = <<>>
    /\ submits = 0
    /\ oplog = <<>>
    /\ probe = NoProbe

Init == InitWith(CommandDocuments)

\* command_invoker.execute(c) followed by what the caller does to the
\* created form (final is the heap the handler leaves).
Executed(r, final) ==
    /\ forms' = final
    /\ history' = r.history
    /\ redo_stack' = r.redo_stack
    /\ oplog' = LogOp(oplog, "execute")
    /\ probe' = [ executed |-> probe.executed + 1, redone |-> probe.redone,
                  pre |-> Append(probe.pre, View(forms)), expect |-> << >>,
                  phase |-> 1, kind |-> Last(r.history).kind,
                  before |-> FullView(forms), after |-> FullView(r.F), old |-> CreatedBy(Last(r.history)),
                  new |-> <<>>,
                  counts |-> <<Cardinality(Live(forms)), Cardinality(Live(r.F))>> ]
    /\ UNCHANGED inference_vars

CanExecute(c) ==
    /\ ~crashed
    /\ probe.executed < MaxCommands
    /\ Len(forms) + Allocates(forms, c) <= MaxForms

\* GraphicsScene.create_new_form (Ctrl+click, Ctrl+I)
CreateNewForm(position) ==
    LET c == CreateFormCommand(None, NoPos, DEFAULT_LLM_MODEL)
        r == InvokerExecute(forms, history, redo_stack, c)
    IN /\ CanExecute(c)
       /\ Executed(r, [r.F EXCEPT ![Last(r.history).created_form].pos = position])

\* FormWidget.clone_form (the Fork button)
CloneForm(n, rx, ry) ==
    LET clone_pos == AddVec(forms[n].pos, <<FormWidth + rx, 0 - ry>>)
        c == CreateFormCommand(n, clone_pos, forms[n].model)
        r == InvokerExecute(forms, history, redo_stack, c)
    IN /\ CanExecute(c)
       /\ Executed(r, r.F)

\* FormWidget.clone_branch
CloneBranchForm(n) ==
    LET c == CloneBranchCommand(n)
        r == InvokerExecute(forms, history, redo_stack, c)
    IN /\ CanExecute(c)
       /\ Executed(r, r.F)

\* FormWidget.delete_form
DeleteForm(n) ==
    LET c == DeleteFormCommand(forms, n)
        r == InvokerExecute(forms, history, redo_stack, c)
    IN /\ CanExecute(c)
       /\ Executed(r, r.F)

\* command_invoker.execute(MoveFormCommand(form, form.pos(), new_pos))
MoveForm(n, new_pos) ==
    LET c == MoveFormCommand(n, forms[n].pos, new_pos)
        r == InvokerExecute(forms, history, redo_stack, c)
    IN /\ CanExecute(c)
       /\ new_pos # forms[n].pos
       /\ Executed(r, r.F)

\* The form the user drags: the one put in the scene last.
DraggedForms(F) == { m \in Live(F) : \A k \in Live(F) : k <= m }

\* MainWindow.undo
Undo ==
    LET r == InvokerUndo(forms, history, redo_stack)
    IN /\ ~crashed
       /\ forms' = r.F
       /\ history' = r.history
       /\ redo_stack' = r.redo_stack
       /\ oplog' = LogOp(oplog, "undo")
       /\ probe' = IF history = <<>>
                   THEN [NoProbe EXCEPT !.expect = View(forms), !.pre = probe.pre,
                                        !.executed = probe.executed,
                                        !.redone = probe.redone]
                   ELSE IF probe.phase = 1
                   THEN [probe EXCEPT
                           !.pre = SubSeq(@, 1, Len(@) - 1),
                           !.expect = Last(probe.pre),
                           !.phase = 2,
                           !.before = << >>,
                           !.counts = Append(@, Cardinality(Live(r.F)))]
                   ELSE [NoProbe EXCEPT
                           !.executed = probe.executed,
                           !.redone = probe.redone,
                           !.pre = SubSeq(probe.pre, 1, Len(probe.pre) - 1),
                           !.expect = Last(probe.pre)]
       /\ UNCHANGED inference_vars

\* MainWindow.redo
Redo ==
    LET r == InvokerRedo(forms, history, redo_stack)
    IN /\ ~crashed
       /\ redo_stack # <<>> =>
              Len(forms) + Allocates(forms, Last(redo_stack)) <= MaxForms
       /\ forms' = r.F
       /\ history' = r.history
       /\ redo_stack' = r.redo_stack
       /\ oplog' = LogOp(oplog, "redo")
       /\ probe' = IF redo_stack = <<>>
                   THEN [NoProbe EXCEPT !.pre = probe.pre, !.executed = probe.executed,
                                        !.redone = probe.redone]
                   ELSE IF probe.phase = 2
                   THEN [probe EXCEPT
                           !.pre = Append(@, View(forms)),
                           !.expect = << >>,
                           !.phase = 3,
                           !.redone = TRUE,
                           !.new = CreatedBy(Last(r.history)),
                           !.counts = Append(@, Cardinality(Live(r.F)))]
                   ELSE [NoProbe EXCEPT !.pre = Append(probe.pre, View(forms)),
                                        !.executed = probe.executed,
                                        !.redone = TRUE]
       /\ UNCHANGED inference_vars

Next ==
    \/ \E p \in Positions : CreateNewForm(p)
    \/ \E n \in Live(forms), rx \in RandomOffsets, ry \in RandomOffsets : CloneForm(n, rx, ry)
    \/ \E n \in Live(forms) : CloneBranchForm(n)
    \/ \E n \in Live(forms) : DeleteForm(n)
    \/ \E n \in DraggedForms(forms), p \in MoveTargets : MoveForm(n, p)
    \/ Undo
    \/ Redo

Spec == Init /\ [][Next]_vars

\* ------------------------------------------------ properties: the commands
LastOp == IF oplog = <<>> THEN "none" ELSE Last(oplog)

\* C3: commands executed through the invoker and then undone in reverse
\* order leave the live tree (every live form's parent, children and
\* position, and the set of live forms) as it was: as long as nothing was
\* redone, each undo restores the tree its command found.
C3_UndoRestoresTree ==
    (LastOp = "undo" /\ ~probe.redone) => View(forms) = probe.expect

\* C4: execute(cmd); undo(); redo() gives the tree that execute(cmd) gave
\* (the forms the command made are new objects, everything else is equal);
\* for a create the scene holds n+1, n and n+1 forms.
C4_RedoReproducesExecute ==
    probe.phase = 3 =>
        /\ Len(probe.new) = Len(probe.old)
        /\ FullView(forms) = RenameView(probe.after, probe.old, probe.new)
        /\ probe.kind = "create" =>
              probe.counts = << probe.counts[1], probe.counts[1] + 1,
                                probe.counts[1], probe.counts[1] + 1 >>

C4_Witness ==
    /\ probe.phase = 3
    /\ probe.kind = "create"
    /\ probe.new # probe.old
    /\ probe.counts[1] > 0

\* C5: after execute of a new command redo_stack is empty, and a redo on
\* an empty redo_stack changes neither the tree nor the stacks.
C5_ExecuteClearsRedo ==
    /\ [](LastOp = "execute" => redo_stack = <<>>)
    /\ [][(Redo /\ redo_stack = <<>>) => UNCHANGED <<forms, history, redo_stack>>]_vars

C5_Witness ==
    /\ oplog = <<"execute", "undo", "execute", "redo">>
    /\ redo_stack = <<>>
    /\ Len(history) = 1

\* The forms of the subtree of n in the view v, as a set and root first.
RECURSIVE SubtreeIn(_, _)
SubtreeIn(v, n) ==
    {n} \cup UNION { SubtreeIn(v, v[n].child_forms[i]) : i \in 1 .. Len(v[n].child_forms) }

RECURSIVE PreorderIn(_, _)
RECURSIVE PreorderKidsIn(_, _)
PreorderKidsIn(v, kids) ==
    IF kids = <<>> THEN <<>> ELSE PreorderIn(v, Head(kids)) \o PreorderKidsIn(v, Tail(kids))
PreorderIn(v, n) == <<n>> \o PreorderKidsIn(v, v[n].child_forms)

Without(s, x) == SelectSeq(s, LAMBDA y : y # x)

\* The tree the latest command found, and the command itself.
TreeBefore == Last(probe.pre)
LatestCommand == Last(history)
JustExecuted(kind) == probe.phase = 1 /\ probe.kind = kind

\* C12: a delete of a form with k descendants takes exactly those k+1
\* forms out of the live tree; every other form stays live with its
\* parent, position and children (the parent of the deleted form loses
\* that one child and gains none).
C12_DeleteRemovesSubtree ==
    JustExecuted("delete") =>
        LET n    == LatestCommand.form
            gone == SubtreeIn(TreeBefore, n)
        IN /\ Live(forms) = (DOMAIN TreeBefore) \ gone
           /\ Cardinality(DOMAIN TreeBefore) - Cardinality(Live(forms))
                  = Len(PreorderIn(TreeBefore, n))
           /\ \A m \in Live(forms) :
                 /\ forms[m].parent_form = TreeBefore[m].parent_form
                 /\ forms[m].pos = TreeBefore[m].pos
                 /\ forms[m].child_forms =
                        IF m = TreeBefore[n].parent_form
                        THEN Without(TreeBefore[m].child_forms, n)
                        ELSE TreeBefore[m].child_forms

C12_Witness ==
    /\ JustExecuted("delete")
    /\ TreeBefore[LatestCommand.form].parent_form # None
    /\ Cardinality(SubtreeIn(TreeBefore, LatestCommand.form)) >= 2

\* The clone of the source form x: the forms of the source subtree, root
\* first, are cloned in that order.
TwinOf(olds, news, x) == news[CHOOSE i \in 1 .. Len(olds) : olds[i] = x]

\* C13: a clone of a branch with k descendants makes k+1 new forms that
\* mirror the source subtree: same shape, each cloned child at the offset
\* from its cloned parent that the original child has from its parent; the
\* cloned root has the parent of the source (none for a root) and is the
\* last child of that parent.
C13_CloneMirrorsBranch ==
    JustExecuted("clone") =>
        LET src  == LatestCommand.source_form
            olds == PreorderIn(TreeBefore, src)
            news == LatestCommand.cloned_forms
            p    == TreeBefore[src].parent_form
        IN /\ Len(news) = Len(olds)
           /\ Cardinality(SeqSet(news)) = Len(olds)
           /\ SeqSet(news) \cap DOMAIN TreeBefore = {}
           /\ Live(forms) = (DOMAIN TreeBefore) \cup SeqSet(news)
           /\ forms[news[1]].parent_form = p
           /\ p # None =>
                 /\ forms[p].child_forms # <<>>
                 /\ Last(forms[p].child_forms) = news[1]
                 /\ p \in DOMAIN TreeBefore =>
                        forms[p].child_forms = Append(TreeBefore[p].child_forms, news[1])
           /\ p = None => \A m \in Live(forms) : ~InSeq(forms[m].child_forms, news[1])
           /\ \A m \in DOMAIN TreeBefore :
                 m # p => View(forms)[m] = TreeBefore[m]
           /\ \A i \in 1 .. Len(olds) :
                 /\ forms[news[i]].child_forms =
                        [ j \in 1 .. Len(TreeBefore[olds[i]].child_forms) |->
                            TwinOf(olds, news, TreeBefore[olds[i]].child_forms[j]) ]
                 /\ i > 1 =>
                        LET op == TreeBefore[olds[i]].parent_form
                        IN /\ forms[news[i]].parent_form = TwinOf(olds, news, op)
                           /\ SubVec(forms[news[i]].pos, forms[TwinOf(olds, news, op)].pos)
                                  = SubVec(TreeBefore[olds[i]].pos, TreeBefore[op].pos)

C13_Witness ==
    /\ JustExecuted("clone")
    /\ Len(LatestCommand.cloned_forms) >= 2
    /\ forms[LatestCommand.cloned_forms[1]].parent_form = None

\* C14: every form a clone of a branch makes carries the prompt, the
\* response and the model of the source form it copies, as context
\* assembly reads them and as to_dict writes them (the persisted "context"
\* of the clone equals that of its source).
C14_CloneCarriesContent ==
    JustExecuted("clone") =>
        LET olds == PreorderIn(TreeBefore, LatestCommand.source_form)
            news == LatestCommand.cloned_forms
        IN \A i \in 1 .. Len(news) :
              /\ forms[news[i]].input = forms[olds[i]].input
              /\ forms[news[i]].conv = forms[olds[i]].conv
              /\ forms[news[i]].model = forms[olds[i]].model
              /\ ToDict(forms, news[i]).input = ToDict(forms, olds[i]).input
              /\ ToDict(forms, news[i]).model = ToDict(forms, olds[i]).model
              /\ ToDict(forms, news[i]).context = ToDict(forms, olds[i]).context

\* What a form holds, with the response as context assembly reads it, and
\* nested the same for its children in order.
RECURSIVE Snapshot(_, _)
Snapshot(F, n) ==
    [ pos |-> F[n].pos, size |-> F[n].size, input |-> F[n].input,
      markdown_content |-> F[n].markdown_content, conv |-> F[n].conv,
      model |-> F[n].model, selected_files |-> F[n].selected_files,
      children |-> [ i \in 1 .. Len(F[n].child_forms) |-> Snapshot(F, F[n].child_forms[i]) ] ]

RECURSIVE Forest(_, _)
Forest(F, n) ==
    IF n > Len(F) THEN <<>>
    ELSE (IF F[n].in_scene /\ F[n].parent_form = None THEN <<Snapshot(F, n)>> ELSE <<>>)
         \o Forest(F, n + 1)

Reloaded(F) == LoadFromFile(SaveState(F))

\* C16: to_dict followed by from_dict gives a forest equal to the original
\* in structure and in every field: links and child order, positions,
\* sizes, prompts, responses, models and file lists.
C16_SaveLoadRoundTrip == Forest(Reloaded(forms), 1) = Forest(forms, 1)

\* Number of forms written in a list of document nodes.
RECURSIVE NodeCount(_)
NodeCount(nodes) ==
    IF nodes = <<>> THEN 0
    ELSE 1 + NodeCount(Head(nodes).children) + NodeCount(Tail(nodes))

\* C17: after any executes, undos and redos, saving and loading gives as
\* many forms as the scene held: each live form is written once, the roots
\* at the top and the others under their parents.
C17_SaveLoadKeepsCount ==
    /\ NodeCount(SaveState(forms)) = Cardinality(Live(forms))
    /\ Cardinality(Live(Reloaded(forms))) = Cardinality(Live(forms))

\* C18: the invoker keeps stack discipline. An undo takes exactly the last
\* command of history, runs its undo and puts it on top of redo_stack; a
\* redo takes exactly the top of redo_stack, runs its execute and puts it
\* at the end of history; with its stack empty each leaves the tree and
\* both stacks as they are and raises nothing.
C18_StackDiscipline ==
    [][/\ (LastOp' = "undo" /\ history # <<>>) =>
             LET r == CommandUndo(forms, Last(history))
             IN /\ history' = SubSeq(history, 1, Len(history) - 1)
                /\ redo_stack' = Append(redo_stack, r.c)
                /\ Last(redo_stack').kind = Last(history).kind
                /\ forms' = r.F
                /\ ~crashed'
       /\ (LastOp' = "undo" /\ history = <<>>) =>
             /\ UNCHANGED <<forms, history, redo_stack>>
             /\ ~crashed'
       /\ (LastOp' = "redo" /\ redo_stack # <<>>) =>
             LET r == CommandExecute(forms, Last(redo_stack))
             IN /\ redo_stack' = SubSeq(redo_stack, 1, Len(redo_stack) - 1)
                /\ history' = Append(history, r.c)
                /\ Last(history').kind = Last(redo_stack).kind
                /\ forms' = r.F
                /\ ~crashed'
       /\ (LastOp' = "redo" /\ redo_stack = <<>>) =>
             /\ UNCHANGED <<forms, history, redo_stack>>
             /\ ~crashed']_vars

C18_Witness ==
    /\ LastOp = "redo"
    /\ probe.phase = 3
    /\ Len(history) >= 2
    /\ redo_stack = <<>>

\* C20: the execute of a create adds exactly one new form to the live tree
\* and changes no other form's content or position: with a parent the new
\* form is the last of the parent's children and has the parent as its
\* parent link, without a parent it is a new root.
C20_CreateAddsOneNode ==
    JustExecuted("create") =>
        LET c   == LatestCommand
            id  == c.created_form
            now == FullView(forms)
        IN /\ id \notin DOMAIN probe.before
           /\ DOMAIN now = DOMAIN probe.before \cup {id}
           /\ \A n \in DOMAIN probe.before :
                 now[n] = IF n = c.parent_form
                          THEN [probe.before[n] EXCEPT !.child_forms = Append(@, id)]
                          ELSE probe.before[n]
           /\ forms[id].parent_form = c.parent_form
           /\ forms[id].child_forms = <<>>
           /\ c.parent_form # None =>
                 /\ forms[c.parent_form].child_forms # <<>>
                 /\ Last(forms[c.parent_form].child_forms) = id
                 /\ forms[id].link_line = "shown"
           /\ c.parent_form = None =>
                 \A n \in Ids(forms) : ~InSeq(forms[n].child_forms, id)

C20_Witness ==
    /\ JustExecuted("create")
    /\ LatestCommand.parent_form # None
    /\ Len(forms[LatestCommand.parent_form].child_forms) >= 2
    /\ Cardinality(DOMAIN probe.before) >= 2

\* ------------------------------------------- a command that fails part-way
\* _clone_branch when the construction of a FormWidget raises after `left`
\* forms were built: what was built and attached before stays as it is.
RECURSIVE CloneBranchUntil(_, _, _, _, _)
RECURSIVE CloneChildrenUntil(_, _, _, _, _)
CloneChildrenUntil(F, source, kids, cloned_form, left) ==
    IF kids = <<>>
    THEN [F |-> F, raised |-> FALSE, left |-> left]
    ELSE LET child     == Head(kids)
             child_pos == AddVec(F[cloned_form].pos, SubVec(F[child].pos, F[source].pos))
             r         == CloneBranchUntil(F, child, cloned_form, child_pos, left)
         IN IF r.raised
            THEN r
            ELSE CloneChildrenUntil(r.F, source, Tail(kids), cloned_form, r.left)

CloneBranchUntil(F, source_form, parent_form, position, left) ==
    IF left = 0
    THEN [F |-> F, raised |-> TRUE, left |-> 0]
    ELSE LET id == Len(F) + 1
             f0 == [NewForm(parent_form, F[source_form].model) EXCEPT
                       !.pos = position,
                       !.input = F[source_form].input,
                       !.conv = F[source_form].conv,
                       !.in_scene = TRUE,
                       !.link_line = IF parent_form # None THEN "shown" ELSE "none"]
             F1 == Append(F, f0)
             F2 == IF parent_form # None
                   THEN [F1 EXCEPT ![parent_form].child_forms = Append(@, id)]
                   ELSE F1
         IN CloneChildrenUntil(F2, source_form, F2[source_form].child_forms, id, left - 1)

\* FormWidget.clone_branch when command.execute() raises inside
\* CommandInvoker.execute: the exception leaves execute before
\* history.append and redo_stack.clear, and leaves the slot unhandled.
CloneBranchRaises(n, built) ==
    LET c       == CloneBranchCommand(n)
        new_pos == AddVec(forms[n].pos, <<CloneOffsetX, CloneOffsetY>>)
        r       == CloneBranchUntil(forms, n, forms[n].parent_form, new_pos, built)
    IN /\ CanExecute(c)
       /\ r.raised
       /\ forms' = r.F
       /\ crashed' = TRUE
       /\ probe' = [NoProbe EXCEPT !.kind = "raised", !.executed = probe.executed,
                                   !.redone = probe.redone, !.pre = probe.pre]
       /\ UNCHANGED <<history, redo_stack, oplog, workers, events, active_workers,
                      just_started, runs, submits>>

NextFailure ==
    \/ Next
    \/ \E n \in Live(forms), built \in 0 .. (MaxForms - 1) : CloneBranchRaises(n, built)

SpecFailure == Init /\ [][NextFailure]_vars

\* C19: when command.execute() fails inside CommandInvoker.execute, the
\* failure reaches the caller, the command is not appended to history, and
\* the tree is exactly as it was before the call.
C19_FailedExecuteLeavesTree ==
    [][(probe'.kind = "raised" /\ probe.kind # "raised") =>
          /\ crashed'
          /\ history' = history
          /\ FullView(forms') = FullView(forms)]_vars

\* ------------------------------------------------------ the re-run engine
InitRerun == InitWith(ChainDocuments)

UIWorld == World(forms, workers, events, active_workers, crashed)

\* The UI handler left the world S.
Handled(S) ==
    /\ forms' = S.F
    /\ workers' = S.W
    /\ events' = S.E
    /\ active_workers' = S.aw
    /\ crashed' = S.crashed
    /\ just_started' = (Len(workers) + 1) .. Len(S.W)
    /\ UNCHANGED invoker_vars

\* FormWidget.re_run_all (the Re-Run button of form n)
ReRunAll(n) ==
    /\ ~crashed
    /\ Len(runs) < MaxReruns
    /\ LET run == Len(runs) + 1
           S0  == [UIWorld EXCEPT !.F = AllForms(@, n, run)]
       IN Handled(ProcessNextForm(S0, n))
    /\ runs' = Append(runs, n)
    /\ UNCHANGED submits

\* FormWidget.submit_form from the keyboard or the emoji label of form n
UserSubmit(n) ==
    /\ ~crashed
    /\ submits < MaxSubmits
    /\ Handled(SubmitForm(UIWorld, n, 0))
    /\ submits' = submits + 1
    /\ UNCHANGED runs

\* A pool thread ends LlmWorker.run of worker w.
LlmWorkerReturns(w, ok, raced) ==
    /\ ~crashed
    /\ workers[w].state = "running"
    /\ raced => w \in just_started
    /\ workers' = [workers EXCEPT ![w].state = "returned", ![w].ok = ok]
    /\ events' = events \o LlmWorkerRun(workers, w, ok, raced)
    /\ just_started' = just_started \ {w}
    /\ UNCHANGED <<forms, active_workers, crashed, runs, submits>>
    /\ UNCHANGED invoker_vars

\* A pool thread ends JinaReaderWorker.run of the i-th fetch of form n.
JinaReaderWorkerReturns(n, i, ok) ==
    /\ ~crashed
    /\ i \in 1 .. Len(forms[n].jina_running)
    /\ LET jr == forms[n].jina_running
       IN /\ forms' = [forms EXCEPT ![n].jina_running =
                          SubSeq(jr, 1, i - 1) \o SubSeq(jr, i + 1, Len(jr))]
          /\ events' = Append(events, JinaReaderWorkerRun(n, jr[i], ok))
    /\ UNCHANGED <<workers, active_workers, crashed, just_started, runs, submits>>
    /\ UNCHANGED invoker_vars

\* The event loop runs the slot of the oldest posted event.
Deliver ==
    /\ ~crashed
    /\ events # <<>>
    /\ Handled(RunSlot([UIWorld EXCEPT !.E = Tail(@)], Head(events)))
    /\ UNCHANGED <<runs, submits>>

NextRerun ==
    \/ \E n \in Live(forms) : ReRunAll(n)
    \/ \E n \in Live(forms) : UserSubmit(n)
    \/ \E w \in Ids(workers), ok \in BOOLEAN, raced \in BOOLEAN : LlmWorkerReturns(w, ok, raced)
    \/ \E n \in Ids(forms), i \in 1 .. MaxReruns + MaxSubmits, ok \in BOOLEAN :
           JinaReaderWorkerReturns(n, i, ok)
    \/ Deliver

SpecRerun == InitRerun /\ [][NextRerun]_vars

\* The same engine on the chains for context assembly.
InitContext == InitWith(ContextDocuments)

\* Nothing is in flight: no worker runs, no fetch runs, no event is posted.
Idle ==
    /\ events = <<>>
    /\ \A w \in Ids(workers) : workers[w].state # "running"
    /\ \A n \in Ids(forms) : forms[n].jina_running = <<>>

\* The user starts a submission or a re-run when nothing is in flight, a
\* bounded number of times; a worker ends after the UI thread has made
\* the connections of its notify_child signal.
MoreRequests == Len(runs) + submits <= MaxSubmits

NextContext ==
    \/ \E n \in Live(forms) : Idle /\ MoreRequests /\ ReRunAll(n)
    \/ \E n \in Live(forms) : Idle /\ MoreRequests /\ UserSubmit(n)
    \/ \E w \in Ids(workers), ok \in BOOLEAN : LlmWorkerReturns(w, ok, FALSE)
    \/ \E n \in Ids(forms), i \in 1 .. MaxReruns + MaxSubmits, ok \in BOOLEAN :
           JinaReaderWorkerReturns(n, i, ok)
    \/ Deliver

SpecContext == InitContext /\ [][NextContext]_vars

\* ------------------------------------------------ properties: the re-runs
Count(seq, Test(_)) == Len(SelectSeq(seq, Test))

\* A request is in flight from its submission until its outcome has been
\* handled on the UI thread: a fetch that runs or whose result is posted,
\* a worker whose update/error slot has not run yet.
PendingFetchEvent(e) ==
    \/ e.slot = "handle_jina_reader_content"
    \/ e.slot = "handle_error" /\ e.w = None

InFlightOf(n) ==
    Count(workers, LAMBDA wk : wk.form = n /\ wk.state # "delivered")
    + Len(forms[n].jina_running)
    + Count(events, LAMBDA e : e.form = n /\ PendingFetchEvent(e))

RECURSIVE SumInFlight(_)
SumInFlight(n) == IF n = 0 THEN 0 ELSE InFlightOf(n) + SumInFlight(n - 1)
TotalInFlight == SumInFlight(Len(forms))

RECURSIVE SumFetches(_, _)
SumFetches(n, r) ==
    IF n = 0 THEN 0
    ELSE Count(forms[n].jina_running, LAMBDA x : x = r) + SumFetches(n - 1, r)

InFlightOfRun(r) ==
    Count(workers, LAMBDA wk : wk.run = r /\ wk.state # "delivered")
    + SumFetches(Len(forms), r)
    + Count(events, LAMBDA e : e.run = r /\ PendingFetchEvent(e))

\* Nothing is running and nothing is posted: the program has come to rest.
Quiescent ==
    \/ crashed
    \/ /\ events = <<>>
       /\ \A w \in Ids(workers) : workers[w].state # "running"
       /\ \A n \in Ids(forms) : forms[n].jina_running = <<>>

RunIds == 1 .. Len(runs)
PathOfRun(r) == PathTopDown(forms, runs[r])
WorkersOfRun(r) == SelectSeq(workers, LAMBDA wk : wk.run = r)
LlmCallsOfRun(r) ==
    LET ws == WorkersOfRun(r) IN [ i \in 1 .. Len(ws) |-> ws[i].form ]
WorkerOf(n, r) == CHOOSE w \in Ids(workers) : workers[w].form = n /\ workers[w].run = r
HasWorker(n, r) == \E w \in Ids(workers) : workers[w].form = n /\ workers[w].run = r

\* C1: the submissions of one re-run never overlap: at most one request of
\* a re-run is in flight at any time (stated for a re-run that is the only
\* source of submissions).
C1_ChainIsSequential ==
    (~crashed /\ submits = 0) => \A r \in RunIds : InFlightOfRun(r) <= 1

\* C2: the context a re-run sends for a form holds, for its ancestors, only
\* text produced by submissions of this same re-run.
FromRun(x, r) ==
    \/ x = ErrorPrefix
    \/ x.k \in {"resp", "err"} /\ x.id \in Ids(workers) /\ workers[x.id].run = r
    \/ x.k = "fetch_err" /\ x.id = r

C2_ContextIsFresh ==
    ~crashed => \A w \in Ids(workers) :
        workers[w].run # 0 =>
            \A i \in 1 .. (Len(workers[w].context) - 1) :
                \A j \in 1 .. Len(workers[w].context[i]) :
                    FromRun(workers[w].context[i][j], workers[w].run)

\* C6: active_workers is the number of requests in flight (so never
\* negative, and 0 when nothing is in flight).
C6_CounterIsInFlight ==
    ~crashed => (active_workers = TotalInFlight /\ active_workers >= 0)

\* C7: whatever the prompts, once every issued request has completed and
\* been handled, a re-run has submitted every form of its path and its
\* queue is empty.
C7_RerunWalksWholePath ==
    Quiescent =>
        /\ ~crashed
        /\ \A n \in Ids(forms) : forms[n].form_chain = <<>>
        /\ \A r \in RunIds : \A m \in SeqSet(PathOfRun(r)) : r \in forms[m].submitted

\* Every form holds a plain, non-empty prompt.
PlainPrompts == \A n \in Ids(forms) : forms[n].input = Prompt("plain", n)

\* C8: when the inference of a path form fails during a re-run, every
\* later form of the path is still submitted, and the context of a later
\* form holds the successful responses of its other ancestors (stated for
\* plain prompts, a re-run that is the only source of submissions and a
\* program that is still running).
FailedIn(n, r) == HasWorker(n, r) /\ workers[WorkerOf(n, r)].state # "running"
                                  /\ ~workers[WorkerOf(n, r)].ok
SucceededIn(n, r) == HasWorker(n, r) /\ workers[WorkerOf(n, r)].state # "running"
                                     /\ workers[WorkerOf(n, r)].ok

C8_FailureDoesNotHalt ==
    (Quiescent /\ ~crashed /\ PlainPrompts /\ submits = 0) =>
        \A r \in RunIds :
            LET path == PathOfRun(r)
            IN \A i \in 1 .. Len(path) : \A j \in (i + 1) .. Len(path) :
                FailedIn(path[i], r) =>
                    /\ HasWorker(path[j], r)
                    /\ \A k \in 1 .. (j - 1) :
                          (k # i /\ SucceededIn(path[k], r)) =>
                              InSeq(workers[WorkerOf(path[j], r)].context,
                                    RenderPlain(ResponseText(WorkerOf(path[k], r))))

\* Position of form n on the path (0 when it is not on it).
PathIndex(path, n) ==
    IF InSeq(path, n) THEN CHOOSE i \in 1 .. Len(path) : path[i] = n ELSE 0

\* C9: a re-run submits exactly the forms of the path from the root to
\* its leaf, each once, and the backend calls are made root first: once
\* the program is at rest every form of the path has been submitted by the
\* re-run, and the re-run's backend calls are for forms of the path, in
\* path order, at most one per form.
C9_RerunSubmitsPathInOrder ==
    Quiescent =>
        \A r \in RunIds :
            LET path  == PathOfRun(r)
                calls == LlmCallsOfRun(r)
            IN /\ \A n \in Ids(forms) : r \in forms[n].submitted <=> InSeq(path, n)
               /\ \A i \in 1 .. Len(calls) : InSeq(path, calls[i])
               /\ \A i \in 1 .. (Len(calls) - 1) :
                      PathIndex(path, calls[i]) < PathIndex(path, calls[i + 1])

\* C10: a form has at most one inference request in flight.
C10_OneRequestPerForm == ~crashed => \A n \in Ids(forms) : InFlightOf(n) <= 1

\* The text a posted outcome event leaves as the form's response.
OutcomeOf(e) == IF e.slot = "handle_update" THEN e.text ELSE <<ErrorPrefix>> \o e.text

OutcomeSlots == {"handle_update", "handle_error"}

\* C11: each submission delivers exactly one outcome to its form: a worker
\* that ends posts exactly one of update / error for its form, and when the
\* outcome is handled the program is still running and the form's response
\* is the backend's text, or "Error occurred: " and the description.
C11_ExactlyOneOutcome ==
    /\ [][\A w \in Ids(workers) :
              (workers[w].state = "running" /\ workers'[w].state = "returned") =>
                  Len(SelectSeq(SubSeq(events', Len(events) + 1, Len(events')),
                                LAMBDA e : e.w = w /\ e.slot \in OutcomeSlots)) = 1]_vars
    /\ [][(events # <<>> /\ events' = Tail(events)
              /\ Head(events).slot \in OutcomeSlots) =>
             /\ ~crashed'
             /\ forms'[Head(events).form].markdown_content = OutcomeOf(Head(events))
             /\ forms'[Head(events).form].conv = RenderPlain(OutcomeOf(Head(events)))]_vars

\* ------------------------------------------- properties: context assembly
\* The responses of the ancestors of n that are not empty, root first.
RECURSIVE ResponsesAbove(_, _)
ResponsesAbove(F, n) ==
    IF F[n].parent_form = None
    THEN <<>>
    ELSE LET p == F[n].parent_form
         IN ResponsesAbove(F, p) \o (IF F[p].conv = EmptyText THEN <<>> ELSE <<F[p].conv>>)

\* The workers the step creates for a form whose prompt is not a URL: the
\* requests built by process_llm_request.
NewRequests ==
    { w \in Ids(workers') \ Ids(workers) :
         ~UrlMatch(Strip(forms[workers'[w].form].input)) }

\* C15 as stated: the message list built when a form is submitted is
\* exactly the non-empty responses of its ancestors, root first, and then
\* its own prompt.
C15_ContextIsResponsesThenPrompt ==
    [][\A w \in NewRequests :
          LET n == workers'[w].form
          IN workers'[w].context =
                 ResponsesAbove(forms, n) \o <<Strip(forms[n].input)>>]_vars

\* C15 amended: the message list built when a form whose prompt is not a
\* URL is submitted is the non-empty responses of its ancestors, root
\* first (never a prompt of theirs, never the form's own response), then
\* one message per attached file of the form that can be read (path and
\* content), in the order of the list, and the form's prompt last.
C15_ContextWithFiles ==
    [][\A w \in NewRequests :
          LET n     == workers'[w].form
              files == SelectSeq(forms[n].selected_files, FileReadable)
          IN workers'[w].context =
                 ResponsesAbove(forms, n)
                   \o [ i \in 1 .. Len(files) |-> FileMessage(files[i]) ]
                   \o <<Strip(forms[n].input)>>]_vars

C15_Witness ==
    \E w \in just_started :
        LET n == workers[w].form
        IN /\ Len(AncestorsTopDown(forms, n)) >= 2
           /\ forms[n].selected_files # <<>>
           /\ forms[n].conv # EmptyText
           /\ \E a \in SeqSet(AncestorsTopDown(forms, n)) : forms[a].conv = EmptyText
           /\ \E a \in SeqSet(AncestorsTopDown(forms, n)) :
                  forms[a].conv # EmptyText /\ forms[a].selected_files # <<>>
           /\ Len(workers[w].context) = 3

\* ------------------------------------------------------ JSON canvas export
\* The node of a form carries the form as its id (the code draws a fresh
\* uuid per form) and the prompt and the response as its text.
FormToJsonCanvasNode(F, n) == [ id |-> n, text |-> F[n].input \o F[n].conv ]

CreateEdgeReversed(source_id, target_id) ==
    [ fromNode |-> target_id, toNode |-> source_id ]

CreateEdge(source_id, target_id) ==
    [ fromNode |-> source_id, toNode |-> target_id ]

\* export_child_forms: for each child in order its node, the edge from the
\* parent, then the child's own children.
RECURSIVE ExportChildForms(_, _, _)
ExportChildForms(F, kids, parent_id) ==
    IF kids = <<>>
    THEN [nodes |-> <<>>, edges |-> <<>>]
    ELSE LET child == Head(kids)
             below == ExportChildForms(F, F[child].child_forms, child)
             rest  == ExportChildForms(F, Tail(kids), parent_id)
         IN [ nodes |-> <<FormToJsonCanvasNode(F, child)>> \o below.nodes \o rest.nodes,
              edges |-> <<CreateEdge(parent_id, child)>> \o below.edges \o rest.edges ]

\* JsonCanvasExporter.export: every form of the scene without parent_form
\* and, below it, the forms of child_forms (roots listed by object index).
RECURSIVE ExportFrom(_, _)
ExportFrom(F, n) ==
    IF n > Len(F)
    THEN [nodes |-> <<>>, edges |-> <<>>]
    ELSE LET rest == ExportFrom(F, n + 1)
         IN IF F[n].in_scene /\ F[n].parent_form = None
            THEN LET below == ExportChildForms(F, F[n].child_forms, n)
                 IN [ nodes |-> <<FormToJsonCanvasNode(F, n)>> \o below.nodes \o rest.nodes,
                      edges |-> below.edges \o rest.edges ]
            ELSE rest

Export(F) == ExportFrom(F, 1)

\* -------------------------------------------------- replacing the document
\* scene.clear() removes and destroys every item of the scene: the C++
\* object of a form that was in the scene is gone (a later call of one of
\* its Qt methods raises RuntimeError), its Python attributes remain.  A
\* form that a command had removed from the scene is owned by Python and
\* survives.
SceneClear(F) ==
    [ n \in Ids(F) |->
        IF F[n].in_scene
        THEN [F[n] EXCEPT !.in_scene = FALSE, !.alive = FALSE,
                          !.link_line = IF @ = "shown" THEN "hidden" ELSE @]
        ELSE F[n] ]

\* The first position of seq that holds a destroyed form (0 when none).
FirstDead(F, seq) ==
    IF \E i \in 1 .. Len(seq) : ~F[seq[i]].alive
    THEN CHOOSE i \in 1 .. Len(seq) :
             ~F[seq[i]].alive /\ \A j \in 1 .. (i - 1) : F[seq[j]].alive
    ELSE 0

\* The forms of seq taken out of the scene, as form.scene() / removeItem do
\* one form after the other.
RemoveFromScene(F, seq) ==
    [ n \in Ids(F) |->
        IF n \in SeqSet(seq)
        THEN [F[n] EXCEPT !.in_scene = FALSE,
                          !.link_line = IF @ = "shown" THEN "hidden" ELSE @]
        ELSE F[n] ]

FormsOf(deleted_items) == [ i \in 1 .. Len(deleted_items) |-> deleted_items[i].form ]
Reversed(s) == [ i \in 1 .. Len(s) |-> s[Len(s) + 1 - i] ]

\* command.undo() on a heap that may hold destroyed forms: the result of
\* the undo, or what it had done when a Qt call on a destroyed form raised.
UndoOutcome(F, c) ==
    CASE c.kind = "create" ->
            IF c.created_form # None /\ ~F[c.created_form].alive
            THEN [F |-> F, c |-> c, raised |-> TRUE]
            ELSE [F |-> CreateUndo(F, c).F, c |-> CreateUndo(F, c).c, raised |-> FALSE]
      [] c.kind = "delete" ->
            LET back == Reversed(c.deleted_subtree)
                d    == FirstDead(F, FormsOf(back))
            IN IF d = 0
               THEN [F |-> DeleteUndo(F, c).F, c |-> c, raised |-> FALSE]
               ELSE [F |-> RestoreSubtree(F, Reversed(SubSeq(back, 1, d - 1))),
                     c |-> c, raised |-> TRUE]
      [] c.kind = "move" ->
            IF F[c.form].alive
            THEN [F |-> MoveUndo(F, c).F, c |-> c, raised |-> FALSE]
            ELSE [F |-> F, c |-> c, raised |-> TRUE]
      [] c.kind = "clone" ->
            LET d == FirstDead(F, c.cloned_forms)
            IN IF d = 0
               THEN [F |-> CloneUndo(F, c).F, c |-> c, raised |-> FALSE]
               ELSE [F |-> RemoveFromScene(F, SubSeq(c.cloned_forms, 1, d - 1)),
                     c |-> c, raised |-> TRUE]

\* command.execute() on a heap that may hold destroyed forms.
ExecuteOutcome(F, c) ==
    CASE c.kind = "create" ->
            LET r == CreateExecute(F, c)
            IN IF c.parent_form # None /\ ~F[c.parent_form].alive
               THEN [F |-> [r.F EXCEPT ![r.c.created_form].link_line = "none"],
                     c |-> [r.c EXCEPT !.link_line = None], raised |-> TRUE]
               ELSE [F |-> r.F, c |-> r.c, raised |-> FALSE]
      [] c.kind = "delete" ->
            LET order == FormsOf(DeleteSubtree(F, c.form).deleted)
                d     == FirstDead(F, order)
            IN IF d = 0
               THEN [F |-> DeleteExecute(F, c).F, c |-> DeleteExecute(F, c).c,
                     raised |-> FALSE]
               ELSE [F |-> RemoveFromScene(F, SubSeq(order, 1, d - 1)),
                     c |-> c, raised |-> TRUE]
      [] c.kind = "move" ->
            IF F[c.form].alive
            THEN [F |-> MoveExecute(F, c).F, c |-> c, raised |-> FALSE]
            ELSE [F |-> F, c |-> c, raised |-> TRUE]
      [] c.kind = "clone" ->
            LET parent  == F[c.source_form].parent_form
                new_pos == AddVec(F[c.source_form].pos, <<CloneOffsetX, CloneOffsetY>>)
                order   == PreorderIn(F, c.source_form)
                d       == FirstDead(F, order)
            IN IF d = 1
               THEN [F |-> F, c |-> c, raised |-> TRUE]
               ELSE IF parent # None /\ ~F[parent].alive
               THEN [F |-> CloneBranchUntil(F, c.source_form, parent, new_pos, 1).F,
                     c |-> [c EXCEPT !.parent_form = parent], raised |-> TRUE]
               ELSE IF d > 1
               THEN [F |-> CloneBranchUntil(F, c.source_form, parent, new_pos, d - 1).F,
                     c |-> [c EXCEPT !.parent_form = parent], raised |-> TRUE]
               ELSE [F |-> CloneExecute(F, c).F, c |-> CloneExecute(F, c).c,
                     raised |-> FALSE]

\* Documents opened in place of the current one.
OtherDocuments == { <<Leaf(1, Origin)>> }

\* The observer notes that the document was replaced and what was loaded.
Replaced(final) ==
    /\ ~crashed
    /\ probe.kind # "loaded"
    /\ forms' = final
    /\ probe' = [NoProbe EXCEPT !.kind = "loaded", !.expect = View(final),
                                !.executed = probe.executed]
    /\ UNCHANGED <<history, redo_stack, oplog>>
    /\ UNCHANGED inference_vars

\* MainWindow.load_from_file on a file that exists and is well formed.
LoadFromFileReplaces(canvas_state) ==
    /\ Len(forms) + NodeCount(canvas_state) <= MaxForms
    /\ Replaced(LoadCanvasState(SceneClear(forms), canvas_state))

\* MainWindow.new_document
NewDocument == Replaced(SceneClear(forms))

\* MainWindow.undo after the document was replaced: CommandInvoker.undo
\* pops the command before it calls its undo; an exception leaves the slot.
UndoReplaced ==
    /\ ~crashed
    /\ probe.kind = "loaded"
    /\ IF history = <<>>
       THEN UNCHANGED <<forms, history, redo_stack, crashed>>
       ELSE LET r == UndoOutcome(forms, Last(history))
            IN /\ forms' = r.F
               /\ history' = SubSeq(history, 1, Len(history) - 1)
               /\ redo_stack' = IF r.raised THEN redo_stack ELSE Append(redo_stack, r.c)
               /\ crashed' = r.raised
    /\ UNCHANGED <<oplog, probe, workers, events, active_workers, just_started, runs, submits>>

\* MainWindow.redo after the document was replaced.
RedoReplaced ==
    /\ ~crashed
    /\ probe.kind = "loaded"
    /\ IF redo_stack = <<>>
       THEN UNCHANGED <<forms, history, redo_stack, crashed>>
       ELSE LET c == Last(redo_stack)
                r == ExecuteOutcome(forms, c)
            IN /\ Len(forms) + Allocates(forms, c) <= MaxForms
               /\ forms' = r.F
               /\ redo_stack' = SubSeq(redo_stack, 1, Len(redo_stack) - 1)
               /\ history' = IF r.raised THEN history ELSE Append(history, r.c)
               /\ crashed' = r.raised
    /\ UNCHANGED <<oplog, probe, workers, events, active_workers, just_started, runs, submits>>

\* from_dict on a document whose nodes may lack keys: data["model"],
\* data["pos_x"], data["input"] and data["context"] are read before the
\* form is added to the scene, data["children"] after; a missing key raises
\* KeyError and what was loaded so far stays.
KeysReadFirst == {"model", "pos", "input", "context"}
RECURSIVE FromDictChecked(_, _, _)
RECURSIVE FromDictChildrenChecked(_, _, _)
FromDictChildrenChecked(F, kids, form) ==
    IF kids = <<>>
    THEN [F |-> F, raised |-> FALSE]
    ELSE LET r == FromDictChecked(F, Head(kids), form)
         IN IF r.raised
            THEN r
            ELSE FromDictChildrenChecked(
                     [r.F EXCEPT ![form].child_forms = Append(@, r.form),
                                 ![r.form].link_line = "shown"],
                     Tail(kids), form)

FromDictChecked(F, data, parent) ==
    IF ~(KeysReadFirst \subseteq DOMAIN data)
    THEN [F |-> F, form |-> None, raised |-> TRUE]
    ELSE LET id == Len(F) + 1
             f0 == [NewForm(parent, data.model) EXCEPT
                       !.pos = data.pos, !.input = data.input,
                       !.size = IF "size" \in DOMAIN data
                                THEN data.size ELSE <<FormWidth, FormHeight>>,
                       !.selected_files = IF "selected_files" \in DOMAIN data
                                          THEN data.selected_files ELSE <<>>,
                       !.markdown_content = data.context,
                       !.conv = RenderPlain(data.context),
                       !.in_scene = TRUE]
             F1 == Append(F, f0)
         IN IF "children" \notin DOMAIN data
            THEN [F |-> F1, form |-> id, raised |-> TRUE]
            ELSE LET r == FromDictChildrenChecked(F1, data.children, id)
                 IN [F |-> r.F, form |-> id, raised |-> r.raised]

RECURSIVE LoadCanvasStateChecked(_, _)
LoadCanvasStateChecked(F, canvas_state) ==
    IF canvas_state = <<>>
    THEN [F |-> F, raised |-> FALSE]
    ELSE LET r == FromDictChecked(F, Head(canvas_state), None)
         IN IF r.raised
            THEN [F |-> r.F, raised |-> TRUE]
            ELSE LoadCanvasStateChecked(r.F, Tail(canvas_state))

\* Documents that are valid JSON but have a node without "input", or a
\* node without "children".
NodeWithoutInput == [ pos |-> <<500, 0>>, context |-> EmptyText,
                      model |-> DEFAULT_LLM_MODEL, children |-> <<>> ]
NodeWithoutChildren == [ pos |-> Origin, input |-> Prompt("plain", 1),
                         context |-> OldAnswer(1), model |-> DEFAULT_LLM_MODEL ]
MalformedDocuments ==
    { <<NodeWithoutInput>>,
      <<Leaf(1, Origin), NodeWithoutInput>>,
      <<DocNode(Origin, Prompt("plain", 1), OldAnswer(1), <<NodeWithoutInput>>)>>,
      <<NodeWithoutChildren>> }

\* The observer notes that a load failed and the tree it found.
LoadFailed(final) ==
    /\ ~crashed
    /\ probe.kind # "loaded"
    /\ forms' = final
    /\ crashed' = TRUE
    /\ probe' = [NoProbe EXCEPT !.kind = "load_failed", !.expect = View(forms),
                                !.executed = probe.executed]
    /\ UNCHANGED <<history, redo_stack, oplog, workers, events, active_workers,
                   just_started, runs, submits>>

\* load_from_file on a file that is missing (LookupError) or is not JSON
\* (json.load raises): the exception leaves before scene.clear().
LoadFromFileUnreadable == LoadFailed(forms)

\* load_from_file on a document with a malformed node: scene.clear() has
\* run, from_dict raises part-way, the exception leaves load_from_file.
LoadFromFileMalformed(canvas_state) ==
    LET r == LoadCanvasStateChecked(SceneClear(forms), canvas_state)
    IN /\ r.raised
       /\ Len(r.F) <= MaxForms
       /\ LoadFailed(r.F)

NextLoad ==
    \/ probe.kind # "loaded" /\ Next
    \/ \E doc \in OtherDocuments : LoadFromFileReplaces(doc)
    \/ NewDocument
    \/ UndoReplaced
    \/ RedoReplaced
    \/ LoadFromFileUnreadable
    \/ \E doc \in MalformedDocuments : LoadFromFileMalformed(doc)

SpecLoad == Init /\ [][NextLoad]_vars

\* ------------------------------------------------ properties: the tree
\* The form reached from n by k parent links (None when the chain ends).
RECURSIVE Climb(_, _, _)
Climb(F, n, k) ==
    IF k = 0 \/ n = None THEN n ELSE Climb(F, F[n].parent_form, k - 1)

\* C21: in every reachable state the parent relation has no cycle: from
\* every form the chain of parent links ends, so no form is its own
\* ancestor.
C21_NoCycle ==
    \A n \in Ids(forms) : Climb(forms, n, Len(forms)) = None

C21_Witness ==
    /\ probe.redone
    /\ \E n \in Live(forms) : Climb(forms, n, 2) # None

Occurrences(s, x) == Cardinality({ i \in 1 .. Len(s) : s[i] = x })

\* C22: in every reachable state a form that has a parent is listed
\* exactly once in the parent's children when it is attached (in the
\* scene), and not at all when it is detached.
C22_ListedOnceWhenAttached ==
    \A n \in Ids(forms) :
        forms[n].parent_form # None =>
            Occurrences(forms[forms[n].parent_form].child_forms, n)
                = IF forms[n].in_scene THEN 1 ELSE 0

\* C22 amended: a form in the scene that has a parent is listed exactly
\* once in the parent's children; a form out of the scene is listed by no
\* form of the scene; and every form that a form of the scene lists is in
\* the scene with that form as its parent.  (The forms of a removed
\* subtree keep their own child lists.)
C22_ListedOnceByLiveParent ==
    /\ \A n \in Ids(forms) :
          forms[n].parent_form # None =>
              LET p == forms[n].parent_form
              IN /\ forms[n].in_scene => Occurrences(forms[p].child_forms, n) = 1
                 /\ (~forms[n].in_scene /\ forms[p].in_scene) =>
                        Occurrences(forms[p].child_forms, n) = 0
    /\ \A m \in Live(forms) : \A i \in 1 .. Len(forms[m].child_forms) :
          /\ forms[forms[m].child_forms[i]].in_scene
          /\ forms[forms[m].child_forms[i]].parent_form = m

C22_Witness ==
    /\ LastOp = "undo"
    /\ redo_stack # <<>>
    /\ Last(redo_stack).kind \in {"create", "clone"}
    /\ Last(redo_stack).parent_form # None
    /\ forms[Last(redo_stack).parent_form].in_scene
    /\ \E n \in Ids(forms) :
          ~forms[n].in_scene /\ forms[n].parent_form = Last(redo_stack).parent_form

\* C30: the execute of a move sets the position of the moved form to the
\* new position and changes nothing else (no parent, no children, no other
\* form's position); its undo puts the old position back and leaves the
\* tree as it was before the move.
C30_MoveChangesOnePosition ==
    /\ JustExecuted("move") =>
          /\ LatestCommand.form \in DOMAIN probe.before
          /\ FullView(forms) =
                 [probe.before EXCEPT ![LatestCommand.form].pos = LatestCommand.new_pos]
    /\ (probe.phase = 2 /\ probe.kind = "move") =>
          /\ redo_stack # <<>>
          /\ forms[Last(redo_stack).form].pos = Last(redo_stack).old_pos
          /\ View(forms) = probe.expect

C30_Witness ==
    /\ probe.phase = 2
    /\ probe.kind = "move"
    /\ Cardinality(Live(forms)) >= 3
    /\ forms[Last(redo_stack).form].parent_form # None
    /\ Last(redo_stack).old_pos # Last(redo_stack).new_pos

\* C26: a delete followed by its undo leaves the ordered children of the
\* deleted form's parent as they were before the delete: the restored
\* form is back at its index among its siblings.
C26_DeleteUndoKeepsSiblingOrder ==
    (probe.phase = 2 /\ probe.kind = "delete" /\ redo_stack # <<>>) =>
        LET p == Last(redo_stack).parent_form
        IN (p # None /\ p \in DOMAIN probe.expect) =>
               forms[p].child_forms = probe.expect[p].child_forms

\* C25: once load_from_file or new_document has replaced the forest, undo
\* and redo leave the new forest as it is and raise nothing: no form of
\* the previous document comes back into the scene.
C25_UndoRedoKeepLoadedForest ==
    [][(probe.kind = "loaded" /\ probe'.kind = "loaded") =>
          /\ ~crashed'
          /\ View(forms') = probe.expect]_vars

\* C29: a load that fails surfaces an error and loads nothing in part:
\* afterwards the live forest is exactly the forest that was live before
\* the call (a document that fails has no complete forest).
C29_FailedLoadLoadsNothing ==
    [][(probe'.kind = "load_failed" /\ probe.kind # "load_failed") =>
          /\ crashed'
          /\ Forest(forms', 1) = Forest(forms, 1)]_vars

\* The forms in the scene whose ancestors are all in the scene: the live
\* forms that hang from a live root.
RECURSIVE LiveUpToRoot(_, _)
LiveUpToRoot(F, n) ==
    n = None \/ (F[n].in_scene /\ LiveUpToRoot(F, F[n].parent_form))
UnderLiveRoot(F) == { n \in Ids(F) : LiveUpToRoot(F, n) }

\* C23: the export holds exactly one node for every live form under a live
\* root and exactly one edge for every parent-child link among them, from
\* the parent to the child; so there are as many edges as nodes that are
\* not roots.
C23_ExportNodesAndEdges ==
    LET x     == Export(forms)
        ids   == [ i \in 1 .. Len(x.nodes) |-> x.nodes[i].id ]
        roots == { n \in Live(forms) : forms[n].parent_form = None }
    IN /\ SeqSet(ids) = UnderLiveRoot(forms)
       /\ Cardinality(SeqSet(ids)) = Len(ids)
       /\ SeqSet(x.edges) = { [fromNode |-> forms[n].parent_form, toNode |-> n] :
                                 n \in UnderLiveRoot(forms) \ roots }
       /\ Cardinality(SeqSet(x.edges)) = Len(x.edges)
       /\ Len(x.edges) = Len(x.nodes) - Cardinality(roots)

C23_Witness ==
    /\ Len(Export(forms).edges) >= 2
    /\ Cardinality({ n \in Live(forms) : forms[n].parent_form = None }) >= 2
    /\ history # <<>>

\* Every form in the scene that has a parent has it in the scene, and the
\* parent lists it among its children.
WellLinked(F) ==
    \A n \in Live(F) :
        F[n].parent_form # None =>
            /\ F[F[n].parent_form].in_scene
            /\ InSeq(F[F[n].parent_form].child_forms, n)

\* C24: when the redos have brought back every command that was undone
\* (the redo that empties redo_stack), the live tree has the structure it
\* had before the undos; in particular every live form that is not a root
\* has a live parent that lists it as a child.
C24_UndoRedoKeepsTreeLinked ==
    [][(redo_stack # <<>> /\ redo_stack' = <<>> /\ Len(history') = Len(history) + 1
            /\ ~crashed')
          => WellLinked(forms')]_vars

\* ------------------------------------- completions among the commands
\* str.split("\n"): the lines of a text, a "nl" token being the separator.
RECURSIVE SplitLines(_)
SplitLines(t) ==
    IF \E i \in 1 .. Len(t) : t[i].k = "nl"
    THEN LET i == CHOOSE j \in 1 .. Len(t) :
                    t[j].k = "nl" /\ \A k \in 1 .. (j - 1) : t[k].k # "nl"
         IN <<SubSeq(t, 1, i - 1)>> \o SplitLines(SubSeq(t, i + 1, Len(t)))
    ELSE <<t>>

FollowUpPrompt == <<Tok("follow_up_prompt", 0)>>
FollowUpFailure == <<Tok("Error parsing follow-up questions: ", 0)>>

\* generate_follow_up_questions of form n.
GenerateFollowUpQuestions(S, n) ==
    LET context_data == SelectSeq(GatherFormData(S.F, n), LAMBDA t : t # EmptyText)
                            \o <<FollowUpPrompt>>
    IN SetupLlmWorker(StartProcessing(S, n), n, context_data,
                      "handle_follow_up_questions", 0)

\* What command_invoker.execute leaves in the observers (as in Executed).
ObservedExecute(o, F, r) ==
    [ oplog |-> LogOp(o.oplog, "execute"),
      probe |-> [ executed |-> o.probe.executed + 1, redone |-> o.probe.redone,
                  pre |-> Append(o.probe.pre, View(F)), expect |-> << >>,
                  phase |-> 1, kind |-> Last(r.history).kind,
                  before |-> FullView(F), after |-> FullView(r.F),
                  old |-> CreatedBy(Last(r.history)), new |-> <<>>,
                  counts |-> <<Cardinality(Live(F)), Cardinality(Live(r.F))>> ] ]

\* The loop of handle_follow_up_questions from the i-th line on.  X holds
\* the heap, the invoker and the observers; form n out of the scene has
\* scene() None, and the AttributeError leaves the loop.
RECURSIVE FollowUpQuestions(_, _, _, _)
FollowUpQuestions(X, n, questions, i) ==
    IF i > Len(questions) THEN X
    ELSE IF Strip(questions[i]) = EmptyText
    THEN FollowUpQuestions(X, n, questions, i + 1)
    ELSE IF ~X.F[n].in_scene
    THEN [X EXCEPT !.raised = TRUE]
    ELSE LET x_offset == X.F[n].size[1] + 200
             y_offset == (i - 1) * (X.F[n].size[2] + 50)
             new_pos  == AddVec(X.F[n].pos, <<x_offset, y_offset>>)
             command  == CreateFormCommand(n, new_pos, X.F[n].model)
             r        == InvokerExecute(X.F, X.history, X.redo_stack, command)
             new_form == Last(r.history).created_form
             o        == ObservedExecute(X, X.F, r)
         IN FollowUpQuestions(
                [X EXCEPT !.F = [r.F EXCEPT ![new_form].input = questions[i]],
                          !.history = r.history, !.redo_stack = r.redo_stack,
                          !.oplog = o.oplog, !.probe = o.probe],
                n, questions, i + 1)

\* The end of handle_follow_up_questions of form n: X is what the loop
\* left, and handle_error runs when the loop raised.
AfterFollowUpQuestions(S, n, X) ==
    [ S |-> IF X.raised
            THEN HandleError([S EXCEPT !.F = X.F], n, FollowUpFailure)
            ELSE [S EXCEPT !.F = X.F],
      history |-> X.history, redo_stack |-> X.redo_stack,
      oplog |-> X.oplog, probe |-> X.probe ]

\* handle_follow_up_questions of form n: the invoker state after the loop
\* and the world after the handler.
HandleFollowUpQuestions(S, h, rs, o, n, text) ==
    AfterFollowUpQuestions(S, n,
        FollowUpQuestions(
            [ F |-> S.F, history |-> h, redo_stack |-> rs, oplog |-> o.oplog,
              probe |-> o.probe, raised |-> FALSE ],
            n, SplitLines(text), 1))

\* The answers of the model to the follow-up prompt: one question, two
\* questions around a blank line, no question.
FollowUpResponses ==
    { <<Tok("question", 1)>>,
      <<Tok("question", 1), Tok("nl", 0), Tok("ws", 0), Tok("nl", 0), Tok("question", 2)>>,
      <<Tok("ws", 0)>> }

InitCompletion == InitWith({ <<Leaf(1, Origin)>>, FamilyDocument })

\* The follow-up button of form n.
FollowUp(n) ==
    /\ ~crashed
    /\ submits < MaxSubmits
    /\ Handled(GenerateFollowUpQuestions(UIWorld, n))
    /\ submits' = submits + 1
    /\ UNCHANGED runs

\* A pool thread ends LlmWorker.run of a follow-up worker with the text.
FollowUpWorkerReturns(w, text) ==
    /\ ~crashed
    /\ workers[w].state = "running"
    /\ workers[w].update_handler = "handle_follow_up_questions"
    /\ workers' = [workers EXCEPT ![w].state = "returned"]
    /\ events' = events \o << Event(workers[w].update_handler, workers[w].form, text, w, 0),
                              Event("handle_finished", workers[w].form, EmptyText, w, 0) >>
                        \o NotifyEvents(workers[w], FALSE)
    /\ just_started' = just_started \ {w}
    /\ UNCHANGED <<forms, active_workers, crashed, runs, submits>>
    /\ UNCHANGED invoker_vars

\* The slot of a follow-up answer left the world r.S and the invoker
\* state of r.
HandledWithInvoker(r) ==
    /\ Len(r.S.F) <= MaxForms
    /\ forms' = r.S.F
    /\ workers' = r.S.W
    /\ events' = r.S.E
    /\ active_workers' = r.S.aw
    /\ crashed' = r.S.crashed
    /\ just_started' = {}
    /\ history' = r.history
    /\ redo_stack' = r.redo_stack
    /\ oplog' = r.oplog
    /\ probe' = r.probe

\* The event loop runs the slot of the oldest posted event; the slot of a
\* follow-up answer works on the invoker too.
DeliverCompletion ==
    /\ ~crashed
    /\ events # <<>>
    /\ IF Head(events).slot = "handle_follow_up_questions"
       THEN HandledWithInvoker(
                HandleFollowUpQuestions(
                    [UIWorld EXCEPT !.E = Tail(@), !.W[Head(events).w].state = "delivered"],
                    history, redo_stack, [oplog |-> oplog, probe |-> probe],
                    Head(events).form, Head(events).text))
       ELSE Handled(RunSlot([UIWorld EXCEPT !.E = Tail(@)], Head(events)))
    /\ UNCHANGED <<runs, submits>>

NextCompletion ==
    \/ \E n \in Live(forms), rx \in RandomOffsets, ry \in RandomOffsets : CloneForm(n, rx, ry)
    \/ \E n \in Live(forms) : DeleteForm(n)
    \/ Undo
    \/ Redo
    \/ \E n \in Live(forms) : UserSubmit(n)
    \/ \E n \in Live(forms) : FollowUp(n)
    \/ \E w \in Ids(workers), ok \in BOOLEAN :
           workers[w].update_handler = "handle_update" /\ LlmWorkerReturns(w, ok, FALSE)
    \/ \E w \in Ids(workers), text \in FollowUpResponses : FollowUpWorkerReturns(w, text)
    \/ DeliverCompletion

SpecCompletion == InitCompletion /\ [][NextCompletion]_vars

\* The links of every form, in the scene or not.
Links(F) ==
    [ n \in Ids(F) |-> [ parent_form |-> F[n].parent_form, child_forms |-> F[n].child_forms ] ]

\* C27: the delivery of a completed request of a form, wherever it falls
\* among the commands, undos and redos, changes only that form's response
\* and busy state: no form is made, no form's parent or children change,
\* and the invoker's history and redo_stack stay as they are.
C27_CompletionTouchesOnlyItsForm ==
    [][DeliverCompletion =>
          /\ Len(forms') = Len(forms)
          /\ Links(forms') = Links(forms)
          /\ history' = history
          /\ redo_stack' = redo_stack
          /\ \A m \in Ids(forms) \ {Head(events).form} :
                /\ forms'[m].conv = forms[m].conv
                /\ forms'[m].markdown_content = forms[m].markdown_content
                /\ forms'[m].processing = forms[m].processing]_vars

\* ------------------------------------------------- a re-run on a re-run
\* One chain of plain prompts, MaxDepth forms deep.
InitAgain == InitWith({ <<ChainNode([ i \in 1 .. MaxDepth |-> "plain" ], 1)>> })

\* FormWidget.re_run_all of form n while its form_chain is not empty: the
\* Re-Run button is pressed again before the earlier re-run got through.
ReRunAllAgain(n) ==
    /\ ~crashed
    /\ forms[n].form_chain # <<>>
    /\ Len(runs) <= MaxReruns
    /\ LET run == Len(runs) + 1
           S0  == [UIWorld EXCEPT !.F = AllForms(@, n, run)]
       IN Handled(ProcessNextForm(S0, n))
    /\ runs' = Append(runs, n)
    /\ UNCHANGED submits

NextAgain ==
    \/ \E n \in Live(forms) : ReRunAll(n)
    \/ \E n \in Live(forms) : ReRunAllAgain(n)
    \/ \E w \in Ids(workers), ok \in BOOLEAN, raced \in BOOLEAN : LlmWorkerReturns(w, ok, raced)
    \/ Deliver

SpecAgain == InitAgain /\ [][NextAgain]_vars

\* C28: the form_chain of a leaf never holds the same form twice, also
\* when a re-run is started on the leaf while its form_chain still holds
\* forms of an earlier re-run: the new re-run queues the forms of its own
\* path, each once.
C28_QueueHoldsEachFormOnce ==
    \A n \in { m \in Ids(forms) : forms[m].child_forms = <<>> } :
        \A i, j \in 1 .. Len(forms[n].form_chain) :
            i # j => forms[n].form_chain[i].form # forms[n].form_chain[j].form
====
